---- MODULE Spec2Model ----
(***************************************************************************)
(* Model of the catalog module of rawbak/Store:                            *)
(*   src/store_admin/app_products/views.py  (public catalog views)         *)
(*   src/store_admin/app_products/admin.py  (product admin)                *)
(*                                                                         *)
(* A request is one atomic step: the views and admin hooks run inside one  *)
(* framework request/transaction and the module has no concurrency of its  *)
(* own.  Every action leaves in `request` what was asked, in `response`    *)
(* what came back, in `raised` the exceptions raised while it ran and in   *)
(* `log` the records the module's logger emitted while it ran.             *)
(***************************************************************************)
EXTENDS Integers, Sequences, FiniteSets, TLC

VARIABLES
    products,     \* Product table: product_id -> row
    feedbacks,    \* Feedback table: sequence of rows (index = feedback_id)
    pfeatures,    \* ProductFeature table: <<product_id, feature>> -> value
    store,        \* external key-value store: list key -> list of product ids
    pk_default,   \* schema: Product's primary key field has a default callable
    request,      \* the request handled last
    response,     \* its response
    raised,       \* exceptions raised while it was handled, in order
    log           \* log records emitted while it was handled, in order

vars == <<products, feedbacks, pfeatures, store, pk_default, request, response,
          raised, log>>

(***************************************************************************)
(* Bounds                                                                  *)
(***************************************************************************)
MaxProducts == 2      \* product ids are 1..MaxProducts
MaxList == 2          \* longest list held under one key of the store
MaxFeedback == 1      \* Feedback rows the table may hold

ProductIds == 1..MaxProducts
\* values of the columns `added` and `price`
Stamps == {1, 2}
None == "None"

(***************************************************************************)
(* Data the views read: categories (rows of app_categories.Category, fixed *)
(* here), hosts and the host -> cache attributes table.                    *)
(***************************************************************************)
Categories == {"c0", "c1", "c2"}

Category ==
    [c \in Categories |->
        CASE c = "c0" -> [slug |-> "root", level |-> 0, is_active |-> TRUE,
                          parent |-> None]
          [] c = "c1" -> [slug |-> "phones", level |-> 1, is_active |-> TRUE,
                          parent |-> "c0"]
          [] c = "c2" -> [slug |-> "tablets", level |-> 1, is_active |-> FALSE,
                          parent |-> "c0"]]

Subcategories == {c \in Categories : Category[c].level = 1}

Hosts == {"h1", "h2", "hx"}
ListKeys == {"k1", "k2"}

\* host -> (counter name, list name); "hx" has no entry
NAME_ATRS_CACHE ==
    [h \in {"h1", "h2"} |->
        IF h = "h1" THEN <<"n1", "k1">> ELSE <<"n2", "k2">>]

Users == {"u1", "u2"}
Texts == {"good", "bad"}

(***************************************************************************)
(* Python / framework primitives                                           *)
(***************************************************************************)
\* dict.get(key): the value, or None when the key is missing
DictGet(d, k) == IF k \in DOMAIN d THEN d[k] ELSE None

\* Python's obj[i] on a tuple (0-based); on None it raises TypeError
Subscript(v, i) ==
    IF v = None THEN [exc |-> "TypeError", value |-> None]
    ELSE [exc |-> None, value |-> v[i + 1]]

\* redis LRANGE key start stop: 0-based, stop inclusive, negative indexes
\* count from the end, a missing key is the empty list
LRange(st, key, start, stop) ==
    LET l == IF key \in DOMAIN st THEN st[key] ELSE << >>
        n == Len(l)
        a0 == IF start < 0 THEN n + start ELSE start
        a == IF a0 < 0 THEN 0 ELSE a0
        b0 == IF stop < 0 THEN n + stop ELSE stop
        b == IF b0 > n - 1 THEN n - 1 ELSE b0
    IN  IF a > b THEN << >> ELSE SubSeq(l, a + 1, b + 1)

\* faulty variant: a destructive read, which shortens the list
StoreAfterLRange_pop(st, key) ==
    IF key \in DOMAIN st /\ st[key] # << >>
    THEN [st EXCEPT ![key] = Tail(st[key])] ELSE st

\* what the command sent over the connection leaves in the store: LRANGE
\* only reads
StoreAfterLRange(st, key) == st

Elems(s) == {s[i] : i \in 1..Len(s)}

BoundedSeq(S, n) == UNION {[1..k -> S] : k \in 0..n}

\* An optional value of a type other than string is the empty set (absent)
\* or the singleton of the value.
Nothing == {}
Some(v) == {v}

NoOrder == [field |-> None, desc |-> FALSE]

\* QuerySet: the rows it selects and its ORDER BY (NoOrder: unordered)
QAll(tbl) == [rows |-> DOMAIN tbl, order |-> NoOrder]

IsSorted(seq, order) ==
    order.field # None =>
        \A i, j \in 1..Len(seq) :
            i < j =>
                IF order.desc
                THEN products[seq[i]][order.field] >= products[seq[j]][order.field]
                ELSE products[seq[i]][order.field] <= products[seq[j]][order.field]

\* the row sequences the database may return for a queryset: every
\* arrangement of its rows that respects its ORDER BY
Evaluations(qs) ==
    {s \in [1..Cardinality(qs.rows) -> qs.rows] :
        /\ \A i, j \in 1..Cardinality(qs.rows) : i # j => s[i] # s[j]
        /\ IsSorted(s, qs.order)}

NoResponse == [status |-> "none", exc |-> None, rows |-> << >>,
               object |-> Nothing, feedbacks |-> << >>, choices |-> Nothing]

(***************************************************************************)
(* PopularProductListView.get_queryset                                     *)
(***************************************************************************)
\* faulty variant: the handler lets the error through
PopularExcept_reraise(err) ==
    [exc |-> err, log |-> << >>, range |-> << >>]

\* the except RedisError clause: log and fall back to the empty list
PopularExcept(err) ==
    [exc |-> None, log |-> <<"error", "warning">>, range |-> << >>]

\* the try block; conn_ok / read_ok say whether opening the connection and
\* the LRANGE round trip succeed
PopularTry(host, conn_ok, read_ok) ==
    IF ~conn_ok THEN [exc |-> "RedisError", range |-> << >>]
    ELSE LET key == Subscript(DictGet(NAME_ATRS_CACHE, host), 1)
         IN  IF key.exc # None THEN [exc |-> key.exc, range |-> << >>]
             ELSE IF ~read_ok THEN [exc |-> "RedisError", range |-> << >>]
             ELSE [exc |-> None, range |-> LRange(store, key.value, 0, -1)]

\* faulty variant: the is_active condition is missing
PopularFilter_any_category(qs, range) ==
    [qs EXCEPT !.rows = {p \in qs.rows : p \in Elems(range)}]

\* .filter(category_fk__is_active=True, product_id__in=popular_product_range)
PopularFilter(qs, range) ==
    [qs EXCEPT !.rows = {p \in qs.rows :
        /\ Category[products[p].category_fk].is_active
        /\ p \in Elems(range)}]

PopularList(host, conn_ok, read_ok) ==
    LET try == PopularTry(host, conn_ok, read_ok)
        handled == IF try.exc = "RedisError" THEN PopularExcept(try.exc)
                   ELSE [exc |-> try.exc, log |-> << >>, range |-> try.range]
        key == DictGet(NAME_ATRS_CACHE, host)
    IN  /\ request' = [op |-> "popular", host |-> host]
        /\ raised' = IF try.exc = None THEN << >> ELSE <<try.exc>>
        /\ log' = handled.log
        /\ store' = IF conn_ok /\ read_ok /\ key # None
                    THEN StoreAfterLRange(store, key[2]) ELSE store
        /\ IF handled.exc # None
           THEN response' = [NoResponse EXCEPT !.status = "500",
                                               !.exc = handled.exc]
           ELSE \E rows \in Evaluations(PopularFilter(QAll(products),
                                                      handled.range)) :
                   response' = [NoResponse EXCEPT !.status = "200",
                                                  !.rows = rows]
        /\ UNCHANGED <<products, feedbacks, pfeatures, pk_default>>

(***************************************************************************)
(* ProductDetailView                                                       *)
(***************************************************************************)
\* the store after a get wrapped by @cache_popular_product
cache_popular_product(st, pk) == st

\* get: get_object (Http404 when no row has the pk), then the context with
\* the product's feedbacks in the order they were added
DetailGetResponse(tbl, fbs, pk) ==
    IF pk \notin DOMAIN tbl
    THEN [NoResponse EXCEPT !.status = "404", !.exc = "Http404"]
    ELSE [NoResponse EXCEPT !.status = "200", !.object = Some(pk),
             !.feedbacks = SelectSeq(fbs, LAMBDA f : f.product_fk = pk)]

DetailGet(pk) ==
    LET r == DetailGetResponse(products, feedbacks, pk)
    IN  /\ request' = [op |-> "get", pk |-> pk]
        /\ response' = r
        /\ raised' = IF r.exc = None THEN << >> ELSE <<r.exc>>
        /\ log' = << >>
        /\ store' = cache_popular_product(store, pk)
        /\ UNCHANGED <<products, feedbacks, pfeatures, pk_default>>

\* form.is_valid(): the framework's validation verdict on request.POST
is_valid(form) == form.valid

\* faulty variant: the row is created whatever is_valid() says
PostFeedbacks_ignore_validity(fbs, pk, user, form) ==
    IF pk \in DOMAIN products
    THEN Append(fbs, [text |-> form.text, user_fk |-> user, product_fk |-> pk])
    ELSE fbs

\* the Feedback rows after post's if-block (get_object raises Http404 for
\* an unknown pk before anything is created)
PostFeedbacks(fbs, pk, user, form) ==
    IF is_valid(form) /\ pk \in DOMAIN products
    THEN Append(fbs, [text |-> form.text, user_fk |-> user, product_fk |-> pk])
    ELSE fbs

DetailPost(pk, user, form) ==
    LET fbs == PostFeedbacks(feedbacks, pk, user, form)
        r == DetailGetResponse(products, fbs, pk)
    IN  /\ Len(fbs) <= MaxFeedback
        /\ request' = [op |-> "post", pk |-> pk, user |-> user, form |-> form]
        /\ feedbacks' = fbs
        /\ response' = r
        /\ raised' = IF r.exc = None THEN << >> ELSE <<r.exc>>
        /\ log' = << >>
        /\ store' = cache_popular_product(store, pk)
        /\ UNCHANGED <<products, pfeatures, pk_default>>

\* request.POST as the form sees it: the text and the verdict of validation
Forms == [text : Texts, valid : {TRUE}] \cup {[text |-> "", valid |-> FALSE]}

(***************************************************************************)
(* ProductListView.get_queryset                                            *)
(***************************************************************************)
\* Category.objects.filter(slug=...).first()
SubcategoryBySlug(slug) ==
    IF \E c \in Categories : Category[c].slug = slug
    THEN CHOOSE c \in Categories : Category[c].slug = slug
    ELSE None

SortFields == {"added", "price"}

\* queryset.order_by(ordering): a leading "-" is descending; a name that is
\* no field raises FieldError.  The parameter is its sequence of tokens.
order_by(qs, ordering) ==
    LET desc == Len(ordering) > 0 /\ Head(ordering) = "-"
        name == IF desc THEN Tail(ordering) ELSE ordering
    IN  IF Len(name) = 1 /\ name[1] \in SortFields
        THEN [exc |-> None, qs |-> [qs EXCEPT !.order =
                                       [field |-> name[1], desc |-> desc]]]
        ELSE [exc |-> "FieldError", qs |-> qs]

\* faulty variant: the default ordering is ascending
ListOrdering_ascending(qs, sort) ==
    IF sort = None \/ sort = << >>
    THEN order_by(qs, <<"added">>)
    ELSE order_by(qs, sort)

\* the default ordering '-added', or the one the request names
ListOrdering(qs, sort) ==
    IF sort = None \/ sort = << >>
    THEN order_by(qs, <<"-", "added">>)
    ELSE order_by(qs, sort)

\* ProductFilter(request.GET, queryset=queryset, ...).qs: a WHERE clause
\* added to the same query
ProductFilter(qs, price_max) ==
    [qs EXCEPT !.rows = {p \in qs.rows :
                            \A m \in price_max : products[p].price <= m}]

\* line 56: Product.objects.filter(category_fk=subcategory); the column is
\* not null, so filtering on None selects nothing
ListBase(tbl, subcategory) ==
    [rows |-> {p \in DOMAIN tbl : tbl[p].category_fk = subcategory},
     order |-> NoOrder]

ProductList(slug, sort, price_max) ==
    LET subcategory == SubcategoryBySlug(slug)
        ordered == ListOrdering(ListBase(products, subcategory), sort)
        qs == ProductFilter(ordered.qs, price_max)
    IN  /\ request' = [op |-> "list", slug |-> slug, sort |-> sort,
                       price_max |-> price_max]
        /\ raised' = IF ordered.exc = None THEN << >> ELSE <<ordered.exc>>
        /\ log' = << >>
        /\ IF ordered.exc # None
           THEN response' = [NoResponse EXCEPT !.status = "500",
                                               !.exc = ordered.exc]
           ELSE \E rows \in Evaluations(qs) :
                   response' = [NoResponse EXCEPT !.status = "200",
                                                  !.rows = rows]
        /\ UNCHANGED <<products, feedbacks, pfeatures, store, pk_default>>

Slugs == {"phones", "tablets", "nosuch"}
\* the 'sort' parameter as its tokens; None when the request has none
Sorts == {None, << >>, <<"added">>, <<"price">>, <<"-", "price">>, <<"bogus">>}

(***************************************************************************)
(* ProductAdmin.get_field_queryset                                         *)
(***************************************************************************)
AdminFields == {"category_fk", "manufacturer_fk"}

\* BaseModelAdmin.get_field_queryset: the related model's rows in the
\* ordering of its registered admin, or None when that admin has none.
\* ManufacturerAdmin (lines 88-90) declares no ordering; the Category admin
\* orders its tree.
super_get_field_queryset(db_field) ==
    IF db_field = "category_fk"
    THEN Some([rows |-> Categories, order |-> [field |-> "tree", desc |-> FALSE]])
    ELSE Nothing

\* faulty variant: the level filter selects the top level
get_field_queryset_top_level(db_field) ==
    LET queryset == super_get_field_queryset(db_field)
    IN  IF db_field = "category_fk"
        THEN IF queryset = Nothing
             THEN [exc |-> "AttributeError", queryset |-> Nothing]
             ELSE LET qs == CHOOSE q \in queryset : TRUE
                  IN  [exc |-> None, queryset |-> Some(
                        [rows |-> {c \in qs.rows : Category[c].level = 0},
                         order |-> [field |-> "parent", desc |-> FALSE]])]
        ELSE [exc |-> None, queryset |-> queryset]

\* get_field_queryset(db, db_field, request): for category_fk the
\* framework's queryset narrowed to level 1 and ordered by parent
get_field_queryset(db_field) ==
    LET queryset == super_get_field_queryset(db_field)
    IN  IF db_field = "category_fk"
        THEN IF queryset = Nothing
             THEN [exc |-> "AttributeError", queryset |-> Nothing]
             ELSE LET qs == CHOOSE q \in queryset : TRUE
                  IN  [exc |-> None, queryset |-> Some(
                        [rows |-> {c \in qs.rows : Category[c].level = 1},
                         order |-> [field |-> "parent", desc |-> FALSE]])]
        ELSE [exc |-> None, queryset |-> queryset]

\* the admin builds the form field for db_field
AdminFormfield(db_field) ==
    LET r == get_field_queryset(db_field)
    IN  /\ request' = [op |-> "formfield", field |-> db_field]
        /\ raised' = IF r.exc = None THEN << >> ELSE <<r.exc>>
        /\ log' = << >>
        /\ response' = IF r.exc # None
                       THEN [NoResponse EXCEPT !.status = "500", !.exc = r.exc]
                       ELSE [NoResponse EXCEPT !.status = "200",
                                               !.choices = r.queryset]
        /\ UNCHANGED <<products, feedbacks, pfeatures, store, pk_default>>

\* the values the form accepts for category_fk: the rows of the field's
\* queryset (every row when the hook returns None)
CategoryChoices ==
    LET r == get_field_queryset("category_fk")
    IN  IF r.exc # None THEN {}
        ELSE IF r.queryset = Nothing THEN Categories
        ELSE (CHOOSE q \in r.queryset : TRUE).rows

(***************************************************************************)
(* ProductAdmin.save_model                                                 *)
(***************************************************************************)
FormFields == {"category_fk", "price"}
RowFields == {"category_fk", "price", "added"}

RowOf(obj) == [f \in RowFields |-> obj[f]]

\* Model.save(update_fields=...) as the ORM runs it.  update_fields is
\* Nothing for a plain save().  With `adding` and a primary key default the
\* ORM inserts; otherwise it tries an UPDATE (of update_fields only, when
\* given), which must hit a row when update_fields is given, and falls back
\* to an INSERT when it hit none.
Model_save(tbl, obj, adding, update_fields) ==
    LET pk == CHOOSE k \in obj.product_id : TRUE
        force_insert == adding /\ pk_default
        cols == IF update_fields = Nothing THEN RowFields
                ELSE CHOOSE u \in update_fields : TRUE
    IN  IF update_fields = Some({}) THEN [exc |-> None, tbl |-> tbl]
        ELSE IF ~force_insert /\ pk \in DOMAIN tbl
        THEN [exc |-> None,
              tbl |-> [tbl EXCEPT ![pk] =
                         [f \in RowFields |->
                             IF f \in cols THEN obj[f] ELSE tbl[pk][f]]]]
        ELSE IF ~force_insert /\ update_fields # Nothing
        THEN [exc |-> "DatabaseError", tbl |-> tbl]
        ELSE IF pk \in DOMAIN tbl
        THEN [exc |-> "IntegrityError", tbl |-> tbl]
        ELSE [exc |-> None,
              tbl |-> [k \in DOMAIN tbl \cup {pk} |->
                          IF k = pk THEN RowOf(obj) ELSE tbl[k]]]

\* save_model(request, obj, form, change); uuid is what uuid4() returns
save_model(tbl, obj, changed_data, change, uuid) ==
    LET obj1 == IF obj.product_id = Nothing
                THEN [obj EXCEPT !.product_id = Some(uuid)] ELSE obj
        saved == IF "category_fk" \in changed_data
                 THEN Model_save(tbl, obj1, ~change, Some(changed_data))
                 ELSE Model_save(tbl, obj1, ~change, Nothing)
    IN  [exc |-> saved.exc, tbl |-> saved.tbl, product_id |-> obj1.product_id]

\* the admin's add view (change = FALSE) or change view (change = TRUE) is
\* submitted with valid values
AdminSave(change, pid, values, changed_data, uuid, now) ==
    LET obj == IF change
               THEN [product_id |-> Some(pid),
                     category_fk |-> values.category_fk,
                     price |-> values.price, added |-> products[pid].added]
               ELSE [product_id |-> IF pk_default THEN Some(uuid) ELSE Nothing,
                     category_fk |-> values.category_fk,
                     price |-> values.price, added |-> now]
        r == save_model(products, obj, changed_data, change, uuid)
    IN  /\ change => /\ pid \in DOMAIN products
                     /\ changed_data =
                           {f \in FormFields : values[f] # products[pid][f]}
        /\ uuid \notin DOMAIN products
        /\ request' = [op |-> "save_model", change |-> change,
                       product_id |-> obj.product_id, values |-> values,
                       changed_data |-> changed_data]
        /\ products' = r.tbl
        /\ raised' = IF r.exc = None THEN << >> ELSE <<r.exc>>
        /\ log' = << >>
        /\ response' = [NoResponse EXCEPT
                           !.status = IF r.exc = None THEN "200" ELSE "500",
                           !.exc = r.exc, !.object = r.product_id]
        /\ UNCHANGED <<feedbacks, pfeatures, store, pk_default>>

(***************************************************************************)
(* FeatureProductInline                                                    *)
(***************************************************************************)
Features == {"f1", "f2"}
PFValues == {"v0", "v1"}

\* faulty variant: adding is allowed once the product is saved
has_add_permission_saved_object(user, obj) == obj # Nothing

\* the inline's permission hooks
has_add_permission(user, obj) == FALSE

has_delete_permission(user, obj) == FALSE

\* the inline formset of the product admin is saved: extra forms are kept
\* only with the add permission, DELETE marks only with the delete
\* permission, and the editable field `value` of the rows shown is updated
InlineSave(user, obj, add, del, edit) ==
    LET kept == IF has_delete_permission(user, obj)
                THEN DOMAIN pfeatures \ del ELSE DOMAIN pfeatures
        new == IF has_add_permission(user, obj)
               THEN {a[1] : a \in add} \ kept ELSE {}
    IN  /\ request' = [op |-> "inline", user |-> user, obj |-> obj,
                       add |-> add, del |-> del, edit |-> edit]
        /\ pfeatures' =
              [k \in kept \cup new |->
                  IF k \in new THEN (CHOOSE a \in add : a[1] = k)[2]
                  ELSE IF \E e \in edit : e[1] = k
                  THEN (CHOOSE e \in edit : e[1] = k)[2]
                  ELSE pfeatures[k]]
        /\ raised' = << >>
        /\ log' = << >>
        /\ response' = [NoResponse EXCEPT !.status = "200", !.object = obj]
        /\ UNCHANGED <<products, feedbacks, store, pk_default>>

AtMostOne(S) == {{}} \cup {{x} : x \in S}

(***************************************************************************)
(* Specifications                                                          *)
(***************************************************************************)
ProductRows(stamps) ==
    [category_fk : Subcategories, price : stamps, added : stamps]

\* the product tables the admin can have produced
ProductTables(stamps) ==
    UNION {[D -> ProductRows(stamps)] : D \in SUBSET ProductIds}

Stores(n) == [ListKeys -> BoundedSeq(ProductIds, n)]

NoFeatures == [k \in {} |-> "v0"]

InitRequest ==
    /\ request = [op |-> "none"]
    /\ response = NoResponse
    /\ raised = << >>
    /\ log = << >>

\* the public views other than the catalog list
Init ==
    /\ products \in ProductTables({1})
    /\ store \in {s \in Stores(1) : s["k1"] # << >> /\ s["k2"] = << >>}
    /\ feedbacks = << >>
    /\ pfeatures = NoFeatures
    /\ pk_default = FALSE
    /\ InitRequest

PopularStep == \E host \in Hosts, conn_ok, read_ok \in BOOLEAN :
                  PopularList(host, conn_ok, read_ok)

DetailGetStep == \E pk \in ProductIds : DetailGet(pk)

DetailPostStep == \E pk \in ProductIds, user \in Users, form \in Forms :
                     DetailPost(pk, user, form)

Next == PopularStep \/ DetailGetStep \/ DetailPostStep

Spec == Init /\ [][Next]_vars

\* the popular products view over every store content
InitPopular ==
    /\ products \in ProductTables({1})
    /\ store \in Stores(MaxList)
    /\ feedbacks = << >>
    /\ pfeatures = NoFeatures
    /\ pk_default = FALSE
    /\ InitRequest

NextPopular == PopularStep

SpecPopular == InitPopular /\ [][NextPopular]_vars

\* the catalog list view over every product table
InitList ==
    /\ products \in ProductTables(Stamps)
    /\ store = [k \in ListKeys |-> << >>]
    /\ feedbacks = << >>
    /\ pfeatures = NoFeatures
    /\ pk_default = FALSE
    /\ InitRequest

ListStep == \E slug \in Slugs, sort \in Sorts, price_max \in AtMostOne(Stamps) :
               ProductList(slug, sort, price_max)

NextList == ListStep

SpecList == InitList /\ [][NextList]_vars

\* the product admin
InitAdmin ==
    /\ products = [p \in {1} |-> [category_fk |-> "c1", price |-> 1, added |-> 1]]
    /\ store = [k \in ListKeys |-> << >>]
    /\ feedbacks = << >>
    /\ pfeatures = [k \in {<<1, "f1">>} |-> "v0"]
    /\ pk_default \in BOOLEAN
    /\ InitRequest

FormfieldStep == \E db_field \in AdminFields : AdminFormfield(db_field)

SaveStep ==
    \E change \in BOOLEAN, pid \in ProductIds,
       values \in [category_fk : CategoryChoices, price : Stamps],
       changed_data \in SUBSET FormFields, uuid \in ProductIds, now \in {1} :
        AdminSave(change, pid, values, changed_data, uuid, now)

\* the rows of the formset of obj (none before the product is saved)
RowsOf(obj) == {k \in DOMAIN pfeatures : k[1] \in obj}

InlineStep ==
    \E user \in {"u1"}, obj \in AtMostOne(DOMAIN products) :
      \E add \in AtMostOne(((obj \X Features) \ DOMAIN pfeatures) \X {"v1"}),
         del \in AtMostOne(RowsOf(obj)),
         edit \in AtMostOne(RowsOf(obj) \X PFValues) :
          InlineSave(user, obj, add, del, edit)

NextAdmin == FormfieldStep \/ SaveStep \/ InlineStep

SpecAdmin == InitAdmin /\ [][NextAdmin]_vars

(***************************************************************************)
(* Properties                                                              *)
(***************************************************************************)
NoDuplicates(seq) == \A i, j \in 1..Len(seq) : i # j => seq[i] # seq[j]

IsActive(p) == Category[products[p].category_fk].is_active

\* C1: whenever the read of the store fails in the popular products view
\* (opening the connection or LRANGE raises RedisError), the error is caught:
\* nothing propagates, an error record is logged and the request completes
\* with an empty result.
C1_RedisFailureDegrades ==
    (request.op = "popular" /\ "RedisError" \in Elems(raised)) =>
        /\ response.exc = None
        /\ response.status = "200"
        /\ response.rows = << >>
        /\ "error" \in Elems(log)

\* a read failed for a known host whose list names an active product
C1_Witness ==
    /\ request.op = "popular"
    /\ request.host = "h1"
    /\ raised = <<"RedisError">>
    /\ \E p \in DOMAIN products : IsActive(p) /\ p \in Elems(store["k1"])
    /\ response.status = "200"

C3_PopularResultExact ==
    (request.op = "popular" /\ response.status = "200" /\ raised = << >>) =>
        LET range == store[NAME_ATRS_CACHE[request.host][2]]
        IN  /\ Elems(response.rows) =
                 {p \in DOMAIN products :
                     /\ \E i \in 1..Len(range) : range[i] = p
                     /\ Category[products[p].category_fk].is_active = TRUE}
            /\ NoDuplicates(response.rows)

\* the list of host h2 names a product of an active category, which is
\* returned, and one of an inactive category, which is not; the other
\* host's list differs
C3_Witness ==
    /\ request.op = "popular"
    /\ request.host = "h2"
    /\ raised = << >>
    /\ response.status = "200"
    /\ store["k1"] # store["k2"]
    /\ \E p, q \in DOMAIN products :
          /\ IsActive(p) /\ ~IsActive(q)
          /\ {p, q} \subseteq Elems(store["k2"])
          /\ response.rows = <<p>>

C5_EveryHostCompletes ==
    request.op = "popular" =>
        /\ response.exc = None
        /\ response.status = "200"

\* C6: the catalog list holds only products of the subcategory the slug
\* names, in descending `added` when the request has no or an empty 'sort',
\* in the order 'sort' names otherwise; the filter only removes products.
C6_ListFilteredAndOrdered ==
    (request.op = "list" /\ response.status = "200") =>
        LET rows == response.rows
            sort == request.sort
            field == IF sort = None \/ sort = << >> THEN "added"
                     ELSE sort[Len(sort)]
            desc == IF sort = None \/ sort = << >> THEN TRUE
                    ELSE sort[1] = "-"
            ofSlug == {p \in DOMAIN products :
                         Category[products[p].category_fk].slug = request.slug}
        IN  /\ Elems(rows) \subseteq ofSlug
            /\ request.price_max = {} => Elems(rows) = ofSlug
            /\ NoDuplicates(rows)
            /\ \A i \in 1..(Len(rows) - 1) :
                  IF desc
                  THEN products[rows[i]][field] >= products[rows[i + 1]][field]
                  ELSE products[rows[i]][field] <= products[rows[i + 1]][field]

\* no 'sort': two products of the subcategory, the one added later first;
\* a product of another subcategory is left out
C6_Witness ==
    /\ request.op = "list"
    /\ request.sort = None
    /\ request.slug = "phones"
    /\ response.status = "200"
    /\ Len(response.rows) = 2
    /\ products[response.rows[1]].added > products[response.rows[2]].added

\* C7: the choices the product admin offers for category_fk are exactly the
\* categories of level 1, the querysets of the other fields are the
\* framework's, and so every product is assigned to a subcategory.
C7_CategoryChoicesAreSubcategories ==
    /\ (request.op = "formfield" /\ response.status = "200") =>
          IF request.field = "category_fk"
          THEN /\ response.choices # {}
               /\ \A q \in response.choices :
                     /\ \A c \in q.rows : Category[c].level = 1
                     /\ \A c \in Categories : Category[c].level = 1 => c \in q.rows
          ELSE response.choices = super_get_field_queryset(request.field)
    /\ \A p \in DOMAIN products : Category[products[p].category_fk].level = 1

\* the category choices were built after a product was moved to another
\* subcategory through the admin
C7_Witness ==
    /\ request.op = "formfield"
    /\ request.field = "category_fk"
    /\ response.status = "200"
    /\ \E p \in DOMAIN products : products[p].category_fk = "c2"

\* C8: saving the product-feature inline never adds or deletes a
\* ProductFeature row; only values change.
C8_InlineNeverAddsOrDeletes ==
    [][request'.op = "inline" => DOMAIN pfeatures' = DOMAIN pfeatures]_vars

\* the inline was submitted with an extra form, a DELETE mark and an edited
\* value: only the edit took effect
C8_Witness ==
    /\ request.op = "inline"
    /\ request.add # {}
    /\ request.del # {}
    /\ request.edit = {<<(<<1, "f1">>), "v1">>}
    /\ DOMAIN pfeatures = {<<1, "f1">>}
    /\ pfeatures[<<1, "f1">>] = "v1"

\* C9: after save_model for a newly added product (change = False, no
\* product_id yet, category_fk among the changed fields) the product is a
\* row with the generated product_id and the submitted values.
C9_NewProductIsStored ==
    (/\ request.op = "save_model"
     /\ ~request.change
     /\ request.product_id = {}
     /\ "category_fk" \in request.changed_data) =>
        /\ response.object # {}
        /\ \A id \in response.object :
              /\ id \in DOMAIN products
              /\ products[id].category_fk = request.values.category_fk
              /\ products[id].price = request.values.price

====
